---- MODULE Spec2Model ----
(***************************************************************************)
(* Model of src/src/lib.rs: the cubic step circuit CubicFCircuit<F> (its   *)
(* native form step_native and its R1CS form generate_step_constraints)    *)
(* and the two benchmark tests that drive Nova and the Ethereum decider    *)
(* of the folding_schemes crate with it.                                   *)
(*                                                                         *)
(* Two specifications:                                                     *)
(*   Spec       calls of the two forms of the step relation on inputs      *)
(*              drawn from bounded sets;                                   *)
(*   SpecBench  the run of a benchmark test (bench_bn254 / bench_mnt,      *)
(*              which differ only in the curve types).                     *)
(***************************************************************************)
EXTENDS Integers, Sequences, FiniteSets, TLC

VARIABLES
    F,        \* modulus of the prime field the generic parameter F stands for
    args,     \* Spec: the assignment (i, z_i, external_inputs) last passed
    native,   \* Spec: what step_native returned on args, if called on it
    circuit,  \* Spec: what generate_step_constraints returned on args
    pc,       \* SpecBench: position in the test function
    z_0,      \* SpecBench: the test's local z_0
    step,     \* SpecBench: the loop variable of for i in 0..n_steps
    nova,     \* SpecBench: the test's local nova (i, z_0, z_i)
    verified  \* SpecBench: the test's local verified

vars == <<F, args, native, circuit, pc, z_0, step, nova, verified>>

(***************************************************************************)
(* Bounds of the model.                                                    *)
(***************************************************************************)
MaxStateLen == 2    \* z_i vectors of length 0..MaxStateLen
MaxExtLen == 1      \* external_inputs vectors of length 0..MaxExtLen
MaxStepIndex == 1   \* step index argument 0..MaxStepIndex
MaxZ0 == 3          \* SpecBench: initial state in 0..MaxZ0 (the tests use 3)

\* The tests instantiate F at Fr of BN254 and Fr of MNT4-298, primes of 254
\* and 298 bits, beyond TLC's integers. The code is generic in F: the model
\* ranges over small primes, and over one prime above 35^3 + 35 + 5 whose
\* products still fit TLC's integers, so that the first two states of the
\* cubic scenario are not reduced.
SmallModuli == {7, 11}
Moduli == SmallModuli \cup {46337}

\* Values of state elements past index 0 and of external inputs.
TailVals == {2}
ExtVals == {1}

(***************************************************************************)
(* Arithmetic of the prime field F (ark_ff::PrimeField).                   *)
(***************************************************************************)
FAdd(a, b) == (a + b) % F
FMul(a, b) == (a * b) % F
FFrom(n) == n % F

(***************************************************************************)
(* CubicFCircuit: the declared lengths.                                    *)
(***************************************************************************)
state_len == 1
external_inputs_len == 0

(***************************************************************************)
(* Results. A Rust function returning Result<Vec<_>, _> ends in Ok(v), in  *)
(* Err(e), or in a panic (an index out of bounds).                         *)
(***************************************************************************)
Ok(v) == [tag |-> "Ok", val |-> v]
Panic == [tag |-> "Panic", val |-> <<>>]
NotCalled == [tag |-> "NotCalled", val |-> <<>>]

(***************************************************************************)
(* step_native: z_i[0]^3 + z_i[0] + 5. Neither vector's length is looked   *)
(* at; z_i[0] of an empty vector panics.                                   *)
(***************************************************************************)
step_native_square(i, z_i, external_inputs) ==
    IF Len(z_i) = 0
    THEN Panic
    ELSE Ok(<<FAdd(FAdd(FMul(z_i[1], z_i[1]), z_i[1]), FFrom(5))>>)

step_native_no_linear(i, z_i, external_inputs) ==
    IF Len(z_i) = 0
    THEN Panic
    ELSE Ok(<<FAdd(FMul(FMul(z_i[1], z_i[1]), z_i[1]), FFrom(5))>>)

step_native_last(i, z_i, external_inputs) ==
    IF Len(z_i) = 0
    THEN Panic
    ELSE LET z == z_i[Len(z_i)]
         IN  Ok(<<FAdd(FAdd(FMul(FMul(z, z), z), z), FFrom(5))>>)

step_native(i, z_i, external_inputs) ==
    IF Len(z_i) = 0
    THEN Panic
    ELSE Ok(<<FAdd(FAdd(FMul(FMul(z_i[1], z_i[1]), z_i[1]), z_i[1]), FFrom(5))>>)

(***************************************************************************)
(* The constraint system (ark_relations::r1cs::ConstraintSystem): the      *)
(* assignment of the witness variables and the constraints a * b = c over  *)
(* linear combinations of variables. A linear combination is a sequence of *)
(* terms [coeff, var]; a variable is One or the k-th witness variable.     *)
(***************************************************************************)
EmptyCS == [witness |-> <<>>, constraints |-> <<>>]

One == [k |-> "One", n |-> 0]

VarValue(cs, v) ==
    IF v.k = "One" THEN 1 ELSE cs.witness[v.n]

RECURSIVE EvalLC(_, _)
EvalLC(cs, lc) ==
    IF lc = <<>>
    THEN 0
    ELSE FAdd(FMul(Head(lc).coeff, VarValue(cs, Head(lc).var)), EvalLC(cs, Tail(lc)))

is_satisfied(cs) ==
    \A k \in 1..Len(cs.constraints) :
        LET c == cs.constraints[k]
        IN  FMul(EvalLC(cs, c.a), EvalLC(cs, c.b)) = EvalLC(cs, c.c)

(***************************************************************************)
(* FpVar<F>: a constant, or a variable of the constraint system with its   *)
(* value. Operations that allocate return the constraint system with the   *)
(* variable.                                                               *)
(***************************************************************************)
Constant(v) == [kind |-> "Constant", value |-> v, lc |-> <<[coeff |-> v, var |-> One]>>]

new_variable(cs, v, mode) ==
    IF mode = "Constant"
    THEN [cs |-> cs, out |-> Constant(v)]
    ELSE [cs |-> [cs EXCEPT !.witness = Append(@, v)],
          out |-> [kind |-> "Var", value |-> v,
                   lc |-> <<[coeff |-> 1, var |-> [k |-> "Witness", n |-> Len(cs.witness) + 1]]>>]]

new_constant(cs, v) == new_variable(cs, v, "Constant").out

Scale(c, lc) == [k \in 1..Len(lc) |-> [lc[k] EXCEPT !.coeff = FMul(c, @)]]

\* &a + &b: constants add to a constant; otherwise the sum is the linear
\* combination of both, and no constraint is added.
FpVarAdd(a, b) ==
    IF a.kind = "Constant" /\ b.kind = "Constant"
    THEN Constant(FAdd(a.value, b.value))
    ELSE [kind |-> "Var", value |-> FAdd(a.value, b.value), lc |-> a.lc \o b.lc]

\* &a * &b: constants multiply to a constant, a constant scales a variable,
\* and two variables allocate a witness for the product and enforce
\* a * b = product.
FpVarMul_sum(cs, a, b) ==
    CASE a.kind = "Constant" /\ b.kind = "Constant" ->
            [cs |-> cs, out |-> Constant(FMul(a.value, b.value))]
      [] a.kind = "Constant" /\ b.kind = "Var" ->
            [cs |-> cs,
             out |-> [kind |-> "Var", value |-> FMul(a.value, b.value), lc |-> Scale(a.value, b.lc)]]
      [] a.kind = "Var" /\ b.kind = "Constant" ->
            [cs |-> cs,
             out |-> [kind |-> "Var", value |-> FMul(a.value, b.value), lc |-> Scale(b.value, a.lc)]]
      [] OTHER ->
            LET p == new_variable(cs, FAdd(a.value, b.value), "Witness")
            IN  [cs |-> [p.cs EXCEPT !.constraints =
                            Append(@, [a |-> a.lc, b |-> b.lc, c |-> p.out.lc])],
                 out |-> p.out]

FpVarMul(cs, a, b) ==
    CASE a.kind = "Constant" /\ b.kind = "Constant" ->
            [cs |-> cs, out |-> Constant(FMul(a.value, b.value))]
      [] a.kind = "Constant" /\ b.kind = "Var" ->
            [cs |-> cs,
             out |-> [kind |-> "Var", value |-> FMul(a.value, b.value), lc |-> Scale(a.value, b.lc)]]
      [] a.kind = "Var" /\ b.kind = "Constant" ->
            [cs |-> cs,
             out |-> [kind |-> "Var", value |-> FMul(a.value, b.value), lc |-> Scale(b.value, a.lc)]]
      [] OTHER ->
            LET p == new_variable(cs, FMul(a.value, b.value), "Witness")
            IN  [cs |-> [p.cs EXCEPT !.constraints =
                            Append(@, [a |-> a.lc, b |-> b.lc, c |-> p.out.lc])],
                 out |-> p.out]

(***************************************************************************)
(* generate_step_constraints: the constant five, then                      *)
(* z_i[0] * z_i[0] * z_i[0] + z_i[0] + five over FpVar. The result carries *)
(* the constraint system as the call left it.                              *)
(***************************************************************************)
CircuitResult(tag, val, cs) == [tag |-> tag, val |-> val, cs |-> cs]

generate_step_constraints(cs, i, z_i, external_inputs) ==
    LET five == new_constant(cs, FFrom(5))
    IN  IF Len(z_i) = 0
        THEN CircuitResult("Panic", <<>>, cs)
        ELSE LET z  == z_i[1]
                 m1 == FpVarMul(cs, z, z)
                 m2 == FpVarMul(m1.cs, m1.out, z)
             IN  CircuitResult("Ok", <<FpVarAdd(FpVarAdd(m2.out, z), five)>>, m2.cs)

\* The caller's allocation of a vector of field elements as FpVars.
RECURSIVE AllocVec(_, _, _)
AllocVec(cs, vs, mode) ==
    IF vs = <<>>
    THEN [cs |-> cs, out |-> <<>>]
    ELSE LET h == new_variable(cs, Head(vs), mode)
             t == AllocVec(h.cs, Tail(vs), mode)
         IN  [cs |-> t.cs, out |-> <<h.out>> \o t.out]

(***************************************************************************)
(* Spec: calls of the two forms of the step relation. args is the          *)
(* assignment last passed; native and circuit hold what each form returned *)
(* on that assignment (NotCalled when it was not called on it).            *)
(***************************************************************************)
Vectors(vals, n) == UNION {[1..k -> vals] : k \in 0..n}

StateVectors ==
    {<<>>} \cup {<<h>> \o t : h \in 0..(F - 1), t \in Vectors(TailVals, MaxStateLen - 1)}

ExtVectors == Vectors(ExtVals, MaxExtLen)

Args == [i : 0..MaxStepIndex, z_i : StateVectors, external_inputs : ExtVectors]

Modes == {"Constant", "Witness"}

CircuitNotCalled == [tag |-> "NotCalled", val |-> <<>>, cs |-> EmptyCS, mode |-> "none"]

NoNova == [i |-> 0, z_0 |-> <<>>, z_i |-> <<>>]

BenchIdle ==
    /\ pc = "idle"
    /\ z_0 = <<>>
    /\ step = 0
    /\ nova = NoNova
    /\ verified = "unset"

Init ==
    /\ F \in SmallModuli
    /\ args \in Args
    /\ native = NotCalled
    /\ circuit = CircuitNotCalled
    /\ BenchIdle

StepNative ==
    \E a \in Args :
        /\ args' = a
        /\ native' = step_native(a.i, a.z_i, a.external_inputs)
        /\ circuit' = IF a = args THEN circuit ELSE CircuitNotCalled
        /\ UNCHANGED <<F, pc, z_0, step, nova, verified>>

\* The caller allocates z_i and external_inputs in a fresh constraint system
\* and hands them to generate_step_constraints.
GenerateStepConstraints ==
    \E a \in Args, mode \in Modes :
        LET zv == AllocVec(EmptyCS, a.z_i, mode)
            ev == AllocVec(zv.cs, a.external_inputs, mode)
            r  == generate_step_constraints(ev.cs, a.i, zv.out, ev.out)
        IN  /\ args' = a
            /\ circuit' = [tag |-> r.tag, val |-> r.val, cs |-> r.cs, mode |-> mode]
            /\ native' = IF a = args THEN native ELSE NotCalled
            /\ UNCHANGED <<F, pc, z_0, step, nova, verified>>

Next == StepNative \/ GenerateStepConstraints

Spec == Init /\ [][Next]_vars

(***************************************************************************)
(* SpecBench: the run of a benchmark test. pc names the statement to run   *)
(* next. Every call into the folding_schemes crate is followed by          *)
(* unwrap(): an Err ends the test in a panic, which drops its locals.      *)
(*                                                                         *)
(* The crate is not part of this repository. Nova::init and                *)
(* Nova::prove_step are modelled by what the specification says of them    *)
(* (section 3, IVCState; section 4.3, effects 1 and 5); whether a call     *)
(* fails for a reason of the crate's own, and what Decider::verify         *)
(* returns, is left open: any outcome may happen. The running and incoming *)
(* instances U_i and u_i, the parameters and the proof are opaque values   *)
(* of the crate and are not modelled.                                      *)
(***************************************************************************)
n_steps == 10

Nova_init(z) == [i |-> 0, z_0 |-> z, z_i |-> z]

Nova_prove_step(n, external_inputs) ==
    IF Len(external_inputs) # external_inputs_len
    THEN [tag |-> "Err", val |-> n]
    ELSE LET r == step_native(n.i, n.z_i, external_inputs)
         IN  IF r.tag = "Ok"
             THEN [tag |-> "Ok", val |-> [n EXCEPT !.i = @ + 1, !.z_i = r.val]]
             ELSE [tag |-> r.tag, val |-> n]

InitBench ==
    /\ F \in Moduli
    /\ args = [i |-> 0, z_i |-> <<>>, external_inputs |-> <<>>]
    /\ native = NotCalled
    /\ circuit = CircuitNotCalled
    /\ pc = "preprocess"
    /\ z_0 \in {<<FFrom(z)>> : z \in 0..MaxZ0}
    /\ step = 0
    /\ nova = NoNova
    /\ verified = "unset"

UnwrapPanic ==
    /\ pc' = "panicked"
    /\ step' = 0
    /\ nova' = NoNova
    /\ verified' = "unset"

\* N::preprocess(&mut rng, &params).unwrap(); nova_params.1.pp_hash().unwrap()
Preprocess ==
    /\ pc = "preprocess"
    /\ \E ok \in BOOLEAN :
        IF ok
        THEN pc' = "init" /\ UNCHANGED <<step, nova, verified>>
        ELSE UnwrapPanic
    /\ UNCHANGED <<F, args, native, circuit, z_0>>

\* let mut nova = N::init(&nova_params, f_circuit, z_0).unwrap()
NovaInit ==
    /\ pc = "init"
    /\ \E ok \in BOOLEAN :
        IF ok
        THEN pc' = "decider_preprocess" /\ nova' = Nova_init(z_0)
             /\ UNCHANGED <<step, verified>>
        ELSE UnwrapPanic
    /\ UNCHANGED <<F, args, native, circuit, z_0>>

\* D::preprocess(&mut rng, nova_params, nova.clone()).unwrap()
DeciderPreprocess ==
    /\ pc = "decider_preprocess"
    /\ \E ok \in BOOLEAN :
        IF ok
        THEN pc' = "loop" /\ UNCHANGED <<step, nova, verified>>
        ELSE UnwrapPanic
    /\ UNCHANGED <<F, args, native, circuit, z_0>>

\* for i in 0..n_steps { nova.prove_step(rng, vec![], None).unwrap(); }
ProveStep ==
    /\ pc = "loop"
    /\ step < n_steps
    /\ \E ok \in BOOLEAN :
        LET r == Nova_prove_step(nova, <<>>)
        IN  IF ok /\ r.tag = "Ok"
            THEN pc' = "loop" /\ nova' = r.val /\ step' = step + 1
                 /\ UNCHANGED verified
            ELSE UnwrapPanic
    /\ UNCHANGED <<F, args, native, circuit, z_0>>

\* let proof = D::prove(rng, decider_pp, nova.clone()).unwrap()
DeciderProve ==
    /\ pc = "loop"
    /\ step = n_steps
    /\ \E ok \in BOOLEAN :
        IF ok
        THEN pc' = "decider_verify" /\ UNCHANGED <<step, nova, verified>>
        ELSE UnwrapPanic
    /\ UNCHANGED <<F, args, native, circuit, z_0>>

\* let verified = D::verify(vp, nova.i, nova.z_0.clone(), nova.z_i.clone(),
\*                          &nova.U_i, &nova.u_i, &proof).unwrap()
DeciderVerify ==
    /\ pc = "decider_verify"
    /\ \E r \in {"true", "false", "Err"} :
        IF r # "Err"
        THEN pc' = "assert" /\ verified' = r /\ UNCHANGED <<step, nova>>
        ELSE UnwrapPanic
    /\ UNCHANGED <<F, args, native, circuit, z_0>>

\* assert!(verified)
AssertVerified ==
    /\ pc = "assert"
    /\ IF verified = "true"
       THEN pc' = "done" /\ UNCHANGED <<step, nova, verified>>
       ELSE UnwrapPanic
    /\ UNCHANGED <<F, args, native, circuit, z_0>>

NextBench ==
    \/ Preprocess
    \/ NovaInit
    \/ DeciderPreprocess
    \/ ProveStep
    \/ DeciderProve
    \/ DeciderVerify
    \/ AssertVerified

SpecBench == InitBench /\ [][NextBench]_vars


(***************************************************************************)
(* Properties.                                                             *)
(***************************************************************************)
\* The relation of the specification, z^3 + z + 5 in the field, computed as
\* z * (z^2 + 1) + 5, and its k-fold application.
Cubic(z) == FAdd(FMul(z, FAdd(FMul(z, z), 1)), FFrom(5))

RECURSIVE CubicFold(_, _)
CubicFold(z, k) == IF k = 0 THEN z ELSE Cubic(CubicFold(z, k - 1))

\* The k-fold application of step_native to the state vector z.
RECURSIVE NativeFold(_, _)
NativeFold(z, k) ==
    IF k = 0 THEN z ELSE step_native(k - 1, NativeFold(z, k - 1), <<>>).val

BothCalled == native.tag # "NotCalled" /\ circuit.tag # "NotCalled"

ValidArgs ==
    /\ Len(args.z_i) = state_len
    /\ Len(args.external_inputs) = external_inputs_len

\* C1 (Spec): on every assignment with a state vector of state_len() = 1
\* elements and no external inputs, at every step index, step_native and
\* generate_step_constraints both return one element, the value of the
\* returned variable (as carried, and as its linear combination evaluates
\* under the assignment of the constraint system) equals the native value,
\* both are z^3 + z + 5 in the field, and the constraint system is satisfied.
C1_NativeCircuitEquivalence ==
    (BothCalled /\ ValidArgs) =>
        /\ native.tag = "Ok"
        /\ circuit.tag = "Ok"
        /\ Len(native.val) = 1
        /\ Len(circuit.val) = 1
        /\ circuit.val[1].value = native.val[1]
        /\ EvalLC(circuit.cs, circuit.val[1].lc) = native.val[1]
        /\ native.val[1] = Cubic(args.z_i[1])
        /\ is_satisfied(circuit.cs)

C1_Witness ==
    /\ BothCalled
    /\ ValidArgs
    /\ args.i = 1
    /\ args.z_i = <<3>>
    /\ circuit.mode = "Witness"
    /\ Len(circuit.cs.constraints) = 2
    /\ native.val = <<FFrom(35)>>

\* C5 (Spec), as claimed: step_native fails whenever the length of z_i
\* differs from state_len() or the length of external_inputs differs from
\* external_inputs_len(), and returns a next state only when both lengths
\* match. A panic is counted here as a failure, which the claim (an error
\* value) does not even allow.
C5_LengthMismatchFails ==
    native.tag # "NotCalled" =>
        /\ (~ValidArgs) => native.tag \in {"Err", "Panic"}
        /\ native.tag = "Ok" => ValidArgs

\* C10 (Spec): of any two successive calls of step_native, and of any two
\* successive calls of generate_step_constraints, that both return and whose
\* z_i agree at index 0, the results are equal (for the circuit form: the
\* values of the returned variables), whatever the step index, the external
\* inputs and the state elements past index 0 are; and every result has
\* exactly state_len() element.
C10_DependsOnFirstElementOnly ==
    /\ [][ /\ (native.tag = "Ok" /\ native'.tag = "Ok" /\ args.z_i[1] = args'.z_i[1])
                => native'.val = native.val
           /\ (circuit.tag = "Ok" /\ circuit'.tag = "Ok" /\ args.z_i[1] = args'.z_i[1])
                => /\ circuit'.val[1].value = circuit.val[1].value
                   /\ EvalLC(circuit'.cs, circuit'.val[1].lc)
                        = EvalLC(circuit.cs, circuit.val[1].lc) ]_vars
    /\ [](native.tag = "Ok" => Len(native.val) = state_len)
    /\ [](circuit.tag = "Ok" => Len(circuit.val) = state_len)

C10_Witness ==
    /\ native.tag = "Ok"
    /\ circuit.tag = "Ok"
    /\ Len(args.z_i) = MaxStateLen
    /\ Len(args.external_inputs) = MaxExtLen
    /\ args.i = MaxStepIndex
    /\ args.z_i[1] = 3
    /\ native.val = <<FFrom(35)>>
    /\ circuit.val[1].value = FFrom(35)

NovaLive == nova # NoNova

\* C2 (SpecBench), as claimed: in the run from z_0 = [3], the state after
\* the first prove_step is the field element 35 and after the second the
\* field element 42880, and once the loop has made its 10 prove_step calls
\* the state is the 10-fold application of step_native to z_0.
C2_CubicScenario_AsClaimed ==
    (NovaLive /\ z_0 = <<3>>) =>
        /\ nova.i = 1 => nova.z_i = <<FFrom(35)>>
        /\ nova.i = 2 => nova.z_i = <<FFrom(42880)>>
        /\ step = n_steps =>
            /\ nova.i = 10
            /\ nova.z_i = NativeFold(z_0, 10)

\* C2 (SpecBench), amended: in the run from z_0 = [3], the state after the
\* first prove_step is the field element 35 and after the second the field
\* element 42915 = 35^3 + 35 + 5, and once the loop has made its 10
\* prove_step calls the state is the 10-fold application of step_native to
\* z_0.
C2_CubicScenario ==
    (NovaLive /\ z_0 = <<3>>) =>
        /\ nova.i = 1 => nova.z_i = <<FFrom(35)>>
        /\ nova.i = 2 => nova.z_i = <<FFrom(42915)>>
        /\ step = n_steps =>
            /\ nova.i = 10
            /\ nova.z_i = NativeFold(z_0, 10)

C2_Witness ==
    /\ F = 46337
    /\ z_0 = <<3>>
    /\ pc = "done"
    /\ step = n_steps
    /\ nova.z_i = NativeFold(<<3>>, 10)
    /\ NativeFold(<<3>>, 1) = <<35>>
    /\ NativeFold(<<3>>, 2) = <<42915>>

\* C9 (SpecBench): the IVC state is created with i = 0 and z_i = z_0, and in
\* every state reached by prove_step calls z_0 is the initial state the test
\* passed and z_i is the i-fold application of z -> z^3 + z + 5 in the field
\* to z_0.
C9_StateTrajectory ==
    NovaLive =>
        /\ nova.z_0 = z_0
        /\ Len(nova.z_i) = 1
        /\ nova.z_i[1] = CubicFold(z_0[1], nova.i)
        /\ pc = "decider_preprocess" => (nova.i = 0 /\ nova.z_i = nova.z_0)

C9_Witness ==
    /\ NovaLive
    /\ F = 46337
    /\ z_0 = <<2>>
    /\ nova.i = 3
    /\ nova.z_i # nova.z_0
    /\ nova.z_0 = <<2>>

====
